---- MODULE Spec2Model ----
(***************************************************************************)
(* Model of nodelet::Loader (src/nodelet/src/loader.cpp): the registry of  *)
(* loaded nodelets, its lock, the service front-end with its bond spinner, *)
(* the worker pool the nodelets' callback queues are served by, and the    *)
(* destructor's teardown order.                                            *)
(***************************************************************************)
EXTENDS Integers, Sequences, FiniteSets, TLC

\* ---------------------------------------------------------------- bounds
MaxUnits == 2      \* nodelet instances the factory creates in one run
MaxCalls == 3      \* requests the callers make in one run

\* ---------------------------------------------------------------- domains
NameOrder == <<"cam", "imu">>        \* std::map iterates its keys in order
Names == {NameOrder[i] : i \in 1..Len(NameOrder)}
NoName == "-"
Types == {"Driver", "Unknown", "NullType", "BadInit"}
NoType == "-"
\* The remap_source_args and remap_target_args of a request: none, lists of
\* different lengths, two sources that are one graph name, two that are not.
RemapRequests == {<< <<>>, <<>> >>,
                  << <<"in", "out">>, <<"in">> >>,
                  << <<"in", "/in">>, <<"in", "out">> >>,
                  << <<"in", "out">>, <<"out", "in">> >>}
GraphNames == UNION {{r[j][i] : i \in 1..Len(r[j])} : r \in RemapRequests, j \in 1..2}
\* ros::names::resolve in the root namespace: a relative name gets the
\* namespace in front, a global name is kept.
Resolve(s) ==
  CASE s = "in" -> "/in"
    [] s = "out" -> "/out"
    [] OTHER -> s
ResolvedNames == {Resolve(s) : s \in GraphNames}
NoRemap == [k \in ResolvedNames |-> NoName]
Callers == {"c1", "c2"}              \* threads calling the registry
BondSpinner == "bond_spinner"        \* bond_spinner_(1, &bond_callback_queue_)
Threads == Callers \cup {BondSpinner}
NoThread == "-"
Workers == {"w1"}                    \* threads of the callback manager
UnitIds == 1..MaxUnits
BondIds == {1}                       \* the bond::Bond objects of the run

VARIABLES
  nodelets_,   \* Loader::nodelets_ : name -> unit id, 0 when the key is absent
  lock_,       \* Loader::lock_ : the thread that owns the mutex, or NoThread
  unit,        \* the Nodelet instances created so far
  bonds,       \* the bond::Bond objects created by serviceLoad
  th,          \* per thread: position in the operation it runs, and its locals
  worker,      \* per worker thread: the unit whose callback it runs, 0 if idle
  pool,        \* callback_manager_ : "running", "stopping", "stopped", "released"
  services_,   \* Loader::services_ is set (the front-end exists)
  dtor,        \* the statements of Loader::~Loader executed so far
  calls,       \* history: requests made so far
  live         \* history: names whose last successful load was not undone

vars == <<nodelets_, lock_, unit, bonds, th, worker, pool, services_, dtor, calls, live>>

EmptyMap == [n \in Names |-> 0]
Keys(m) == {n \in Names : m[n] # 0}
Range(s) == {s[i] : i \in 1..Len(s)}

\* A Nodelet: st "none" (not created), "alive", "destroyed"; queues: callback
\* queues it holds that the callback manager serves; inits, disabled: calls of
\* init() and disable(); pending: its queues hold callbacks not yet delivered;
\* poolAt, inDtor: where the callback manager and ~Loader were when it died.
NoUnit == [st |-> "none", queues |-> 0, inits |-> 0, disabled |-> 0, pending |-> FALSE,
           poolAt |-> "-", inDtor |-> FALSE]

\* A bond: st "none", "created", "started", "broken", "notified"; cb: the name its broken
\* callback unloads; queued: that callback waits on bond_callback_queue_;
\* name, unit: history, what the load that got this bond loaded.
NoBond == [st |-> "none", cb |-> NoName, queued |-> FALSE, name |-> NoName, unit |-> 0]

\* A thread: pc, the operation and its arguments, p (NodeletPtr p / iterator
\* it), res and out (the value returned); why, pre, bmap, bdis, bunits are
\* history: why a load failed, whether the entry of name was as the call found
\* it ever since the call was made, and the map, the number of disable() calls
\* and of units when the lock was taken.
\* src, tgt and remap are the request's remap_source_args and
\* remap_target_args and the M_string remappings built from them.
Idle == [pc |-> "idle", op |-> "none", name |-> NoName, type |-> NoType,
         bond |-> 0, p |-> 0, res |-> "none", why |-> "-", out |-> <<>>,
         pre |-> FALSE, bmap |-> EmptyMap, bdis |-> 0, bunits |-> 0,
         src |-> <<>>, tgt |-> <<>>, remap |-> NoRemap]

\* What a call keeps once it has left Loader: its result.
Returned(r, pc) == [Idle EXCEPT !.pc = pc, !.op = r.op, !.name = r.name, !.bond = r.bond,
                                !.p = r.p, !.res = r.res, !.why = r.why, !.pre = r.pre]

\* ---------------------------------------------------------------- helpers
Allocated == {u \in UnitIds : unit[u].st # "none"}
FreshUnit == Cardinality(Allocated) + 1
UsedBonds == {b \in BondIds : bonds[b].st # "none"}
FreshBond == Cardinality(UsedBonds) + 1

RECURSIVE SumDisabled(_, _)
SumDisabled(un, S) ==
  IF S = {} THEN 0
  ELSE LET u == CHOOSE x \in S : TRUE IN un[u].disabled + SumDisabled(un, S \ {u})
DisableCount == SumDisabled(unit, UnitIds)

\* boost::mutex::scoped_lock lock (lock_): taken on entry, released on return
AcquireUnlocked(t) == lock_' = lock_
Acquire(t) == lock_ = NoThread /\ lock_' = t
ReleaseKept(t) == lock_' = lock_
Release(t) == lock_' = IF lock_ = t THEN NoThread ELSE lock_

\* What the thread remembers of the registry when it takes the lock.
Snapshot(r) == [r EXCEPT !.bmap = nodelets_, !.bdis = DisableCount,
                         !.bunits = Cardinality(Allocated)]

\* The table serviceLoad builds: nothing when the argument lists differ in
\* length, else remappings[resolve(source[i])] = resolve(target[i]) for
\* i = 0, 1, ...
RECURSIVE RemapUpTo(_, _, _)
RemapUpTo(src, tgt, i) ==
  IF i = 0 THEN NoRemap
  ELSE [RemapUpTo(src, tgt, i - 1) EXCEPT ![Resolve(src[i])] = Resolve(tgt[i])]
RemapPrefix(src, tgt) ==
  RemapUpTo(src, tgt, IF Len(src) < Len(tgt) THEN Len(src) ELSE Len(tgt))
BuildRemappings(src, tgt) ==
  IF Len(src) # Len(tgt) THEN NoRemap ELSE RemapUpTo(src, tgt, Len(src))

\* pluginlib::ClassLoader<Nodelet>::createClassInstance(type)
CreateClassInstance(type) ==
  CASE type = "Unknown" -> "exception"
    [] type = "NullType" -> "null"
    [] OTHER -> "instance"

\* Nodelet::init(...) calling the nodelet's onInit()
InitOutcome(type) == IF type = "BadInit" THEN "exception" ELSE "ok"

\* A unit loses its last owner: its destructor removes its queues from the
\* callback manager.
Destroyed(r) == [r EXCEPT !.st = "destroyed", !.queues = 0, !.pending = FALSE,
                          !.poolAt = pool, !.inDtor = (dtor # <<>>)]

\* std::map::clear() on nodelets_
ClearUnits == [u \in UnitIds |->
  IF \E n \in Names : nodelets_[n] = u THEN Destroyed(unit[u]) ELSE unit[u]]

\* The callback manager serves the queues of u.
Dispatchable(u) == unit[u].st = "alive" /\ unit[u].queues > 0 /\ unit[u].disabled = 0

\* A change of the entry of name n, seen from the calls of kind op in progress.
Intervene(t, op, n) ==
  [x \in Threads |-> IF x # t /\ th[x].op = op /\ th[x].name = n
                     THEN [th[x] EXCEPT !.pre = FALSE] ELSE th[x]]

\* An explicit unload and the unload of a bond's break callback.
Overlap(t, x) ==
  th[t].op = "unload" /\ th[x].op = "unload" /\ (t = BondSpinner) # (x = BondSpinner)

\* Thread t removes the entries of the names S: the loads of these names in
\* progress no longer race each other for an absent name, and the unloads in
\* progress, other than the one overlapping t's, no longer find what they
\* were called for.
Removal(t, S) ==
  [x \in Threads |->
     IF x # t /\ th[x].name \in S /\ th[x].op \in {"load", "unload"} /\ ~Overlap(t, x)
     THEN [th[x] EXCEPT !.pre = FALSE] ELSE th[x]]

Init ==
  /\ nodelets_ = EmptyMap
  /\ lock_ = NoThread
  /\ unit = [u \in UnitIds |-> NoUnit]
  /\ bonds = [b \in BondIds |-> NoBond]
  /\ th = [t \in Threads |-> Idle]
  /\ worker = [w \in Workers |-> 0]
  /\ pool = "running"
  /\ services_ = TRUE
  /\ dtor = <<>>
  /\ calls = 0
  /\ live = {}

\* The Loader is in use: its destructor has not begun.
InUse == dtor = <<>>

\* ---------------------------------------------------------------- load
\* serviceLoad up to the call of Loader::load.  The request's type and remap
\* arguments are local to the calling thread until load uses them, so they
\* are drawn where load is entered.
ServiceLoad(t, n, withBond) ==
  /\ InUse /\ services_
  /\ th[t].pc = "idle"
  /\ calls < MaxCalls
  /\ calls' = calls + 1
  /\ withBond => FreshBond \in BondIds
  /\ th' = [th EXCEPT ![t] = [Idle EXCEPT !.pc = "load_lock", !.op = "load",
                                !.name = n,
                                !.bond = IF withBond THEN FreshBond ELSE 0,
                                !.pre = (nodelets_[n] = 0)]]
  /\ bonds' = IF withBond
              THEN [bonds EXCEPT ![FreshBond] = [NoBond EXCEPT !.st = "created"]]
              ELSE bonds
  /\ UNCHANGED <<nodelets_, lock_, unit, worker, pool, services_, dtor, live>>

\* if (nodelets_.count(name) > 0)
NameTakenNever(n) == FALSE
NameTaken(n) == nodelets_[n] # 0

\* if (!p) return false;
NullInstanceIgnored(r) == FALSE
NullInstance(r) == r = "null"

\* The lock is taken, the name checked, the instance created and put in the map.
LoadBegin(t, ty, src, tgt) ==
  /\ th[t].pc = "load_lock"
  /\ (~NameTaken(th[t].name) /\ CreateClassInstance(ty) # "exception")
       => FreshUnit \in UnitIds
  /\ Acquire(t)
  /\ LET n == th[t].name
         r == CreateClassInstance(ty)
         me == [Snapshot(th[t]) EXCEPT !.type = ty, !.src = src, !.tgt = tgt,
                                       !.remap = BuildRemappings(src, tgt)]
     IN IF NameTaken(n)
        THEN /\ th' = [th EXCEPT ![t] = [me EXCEPT !.pc = "load_unlock", !.res = "fail",
                                                  !.why = "present"]]
             /\ UNCHANGED <<nodelets_, unit>>
        ELSE IF r = "exception" \/ NullInstance(r)
        THEN /\ th' = [th EXCEPT ![t] = [me EXCEPT !.pc = "load_unlock", !.res = "fail",
                                                  !.why = "factory"]]
             /\ UNCHANGED <<nodelets_, unit>>
        ELSE /\ nodelets_' = [nodelets_ EXCEPT ![n] = FreshUnit]
             /\ unit' = [unit EXCEPT ![FreshUnit] = [NoUnit EXCEPT !.st = "alive"]]
             /\ th' = [Intervene(t, "unload", n) EXCEPT
                         ![t] = [me EXCEPT !.pc = "load_queues", !.p = FreshUnit]]
  /\ UNCHANGED <<bonds, worker, pool, services_, dtor, calls, live>>

\* The single-threaded and the multi-threaded queue of the unit are created
\* on callback_manager_.
AssignQueuesSkipped(un, u) == un
AssignQueues(un, u) == [un EXCEPT ![u].queues = 2]

\* p->st_callback_queue_.reset(...); p->mt_callback_queue_.reset(...)
LoadQueues(t) ==
  /\ th[t].pc = "load_queues"
  /\ unit' = AssignQueues(unit, th[t].p)
  /\ th' = [th EXCEPT ![t].pc = "load_init"]
  /\ UNCHANGED <<nodelets_, lock_, bonds, worker, pool, services_, dtor, calls, live>>

\* p->init(name, remappings, ...) with the table th[t].remap; a
\* pluginlib::PluginlibException it raises is caught, and load returns false.
LoadInit(t) ==
  /\ th[t].pc = "load_init"
  /\ IF InitOutcome(th[t].type) = "ok"
     THEN /\ unit' = [unit EXCEPT ![th[t].p].inits = @ + 1]
          /\ th' = [th EXCEPT ![t].pc = "load_bond"]
     ELSE /\ th' = [th EXCEPT ![t].pc = "load_unlock", ![t].res = "fail",
                               ![t].why = "init"]
          /\ UNCHANGED unit
  /\ UNCHANGED <<nodelets_, lock_, bonds, worker, pool, services_, dtor, calls, live>>

\* bond->setBrokenCallback(boost::bind(&Loader::unload, this, name))
SetBrokenCallbackDropped(bs, b, n) == bs
SetBrokenCallback(bs, b, n) == [bs EXCEPT ![b].cb = n]

\* if (bond) bond->setBrokenCallback(...); return true;
LoadSetBroken(t) ==
  /\ th[t].pc = "load_bond"
  /\ bonds' = IF th[t].bond # 0
              THEN SetBrokenCallback([bonds EXCEPT ![th[t].bond].name = th[t].name,
                                                   ![th[t].bond].unit = th[t].p],
                                     th[t].bond, th[t].name)
              ELSE bonds
  /\ th' = [th EXCEPT ![t].pc = "load_unlock", ![t].res = "ok"]
  /\ live' = live \cup {th[t].name}
  /\ UNCHANGED <<nodelets_, lock_, unit, worker, pool, services_, dtor, calls>>

\* load returns: the scoped lock is released.
LoadReturn(t) ==
  /\ th[t].pc = "load_unlock"
  /\ Release(t)
  /\ th' = [th EXCEPT ![t] = Returned(th[t], "load_ret")]
  /\ UNCHANGED <<nodelets_, unit, bonds, worker, pool, services_, dtor, calls, live>>

\* res.success = ...; if (bond) bond->start(); return res.success;
ServiceLoadReturn(t) ==
  /\ th[t].pc = "load_ret"
  /\ bonds' = IF th[t].bond # 0
              THEN [bonds EXCEPT ![th[t].bond].st = "started"]
              ELSE bonds
  /\ th' = [th EXCEPT ![t] = Idle]
  /\ UNCHANGED <<nodelets_, lock_, unit, worker, pool, services_, dtor, calls, live>>

\* ---------------------------------------------------------------- unload
ServiceUnload(t, n) ==
  /\ InUse /\ services_
  /\ t \in Callers
  /\ th[t].pc = "idle"
  /\ calls < MaxCalls
  /\ calls' = calls + 1
  /\ th' = [th EXCEPT ![t] = [Idle EXCEPT !.pc = "unload_lock", !.op = "unload",
                                !.name = n, !.pre = (nodelets_[n] # 0)]]
  /\ UNCHANGED <<nodelets_, lock_, unit, bonds, worker, pool, services_, dtor, live>>

\* nodelets_.find (name): the unit under the key, 0 for nodelets_.end ()
FindFirst(n) ==
  IF nodelets_[n] # 0 \/ Keys(nodelets_) = {} THEN nodelets_[n]
  ELSE nodelets_[CHOOSE k \in Keys(nodelets_) : TRUE]
Find(n) == nodelets_[n]

UnloadBegin(t) ==
  /\ th[t].pc = "unload_lock"
  /\ Acquire(t)
  /\ LET it == Find(th[t].name)
         me == Snapshot(th[t])
     IN IF it # 0
        THEN th' = [th EXCEPT ![t] = [me EXCEPT !.pc = "unload_disable", !.p = it]]
        ELSE th' = [th EXCEPT ![t] = [me EXCEPT !.pc = "unload_unlock", !.res = "fail"]]
  /\ UNCHANGED <<nodelets_, unit, bonds, worker, pool, services_, dtor, calls, live>>

\* Nodelet::disable(): the unit's queues are served no more.
DisableSkipped(un, u) == un
Disable(un, u) == [un EXCEPT ![u].disabled = @ + 1]

\* it->second->disable()
UnloadDisable(t) ==
  /\ th[t].pc = "unload_disable"
  /\ unit' = Disable(unit, th[t].p)
  /\ th' = [th EXCEPT ![t].pc = "unload_erase"]
  /\ UNCHANGED <<nodelets_, lock_, bonds, worker, pool, services_, dtor, calls, live>>

\* nodelets_.erase (it); return (true);
UnloadErase(t) ==
  /\ th[t].pc = "unload_erase"
  /\ nodelets_' = [n \in Names |-> IF nodelets_[n] = th[t].p THEN 0 ELSE nodelets_[n]]
  /\ unit' = [unit EXCEPT ![th[t].p] = Destroyed(@)]
  /\ th' = [Removal(t, {th[t].name}) EXCEPT
              ![t] = [th[t] EXCEPT !.pc = "unload_unlock", !.res = "ok"]]
  /\ live' = live \ {n \in Names : nodelets_[n] = th[t].p}
  /\ UNCHANGED <<lock_, bonds, worker, pool, services_, dtor, calls>>

UnloadReturn(t) ==
  /\ th[t].pc = "unload_unlock"
  /\ Release(t)
  /\ th' = [th EXCEPT ![t] = Returned(th[t], "unload_ret")]
  /\ UNCHANGED <<nodelets_, unit, bonds, worker, pool, services_, dtor, calls, live>>

\* The caller of unload (serviceUnload, or the bond's callback) returns.
UnloadDone(t) ==
  /\ th[t].pc = "unload_ret"
  /\ th' = [th EXCEPT ![t] = Idle]
  /\ UNCHANGED <<nodelets_, lock_, unit, bonds, worker, pool, services_, dtor, calls, live>>

\* ---------------------------------------------------------------- clear
ClearCall(t) ==
  /\ InUse
  /\ t \in Callers
  /\ th[t].pc = "idle"
  /\ calls < MaxCalls
  /\ calls' = calls + 1
  /\ th' = [th EXCEPT ![t] = [Idle EXCEPT !.pc = "clear_lock", !.op = "clear"]]
  /\ UNCHANGED <<nodelets_, lock_, unit, bonds, worker, pool, services_, dtor, live>>

ClearBegin(t) ==
  /\ th[t].pc = "clear_lock"
  /\ Acquire(t)
  /\ unit' = ClearUnits
  /\ nodelets_' = EmptyMap
  /\ th' = [Removal(t, Keys(nodelets_)) EXCEPT
              ![t] = [Snapshot(th[t]) EXCEPT !.pc = "clear_unlock", !.res = "ok"]]
  /\ live' = {}
  /\ UNCHANGED <<bonds, worker, pool, services_, dtor, calls>>

ClearReturn(t) ==
  /\ th[t].pc = "clear_unlock"
  /\ Release(t)
  /\ th' = [th EXCEPT ![t] = Idle]
  /\ UNCHANGED <<nodelets_, unit, bonds, worker, pool, services_, dtor, calls, live>>

\* ---------------------------------------------------------------- list
\* The keys of a std::map, in the order its iterator visits them.
KeysByInsertion(m) ==
  LET us == SelectSeq([u \in UnitIds |-> u], LAMBDA u : \E n \in Names : m[n] = u)
  IN [i \in 1..Len(us) |-> CHOOSE n \in Names : m[n] = us[i]]
KeysInOrder(m) == SelectSeq(NameOrder, LAMBDA n : m[n] # 0)

ServiceList(t) ==
  /\ InUse /\ services_
  /\ t \in Callers
  /\ th[t].pc = "idle"
  /\ calls < MaxCalls
  /\ calls' = calls + 1
  /\ th' = [th EXCEPT ![t] = [Idle EXCEPT !.pc = "list_lock", !.op = "list"]]
  /\ UNCHANGED <<nodelets_, lock_, unit, bonds, worker, pool, services_, dtor, live>>

ListBegin(t) ==
  /\ th[t].pc = "list_lock"
  /\ Acquire(t)
  /\ th' = [th EXCEPT ![t] = [Snapshot(th[t]) EXCEPT !.pc = "list_unlock", !.res = "ok",
                                !.out = KeysInOrder(nodelets_)]]
  /\ UNCHANGED <<nodelets_, unit, bonds, worker, pool, services_, dtor, calls, live>>

ListReturn(t) ==
  /\ th[t].pc = "list_unlock"
  /\ Release(t)
  /\ th' = [th EXCEPT ![t] = Idle]
  /\ UNCHANGED <<nodelets_, unit, bonds, worker, pool, services_, dtor, calls, live>>

\* ---------------------------------------------------------------- bond
\* The peer of a started bond is lost: the bond queues its broken callback.
BondBreak(b) ==
  /\ bonds[b].st = "started"
  /\ services_
  /\ bonds' = [bonds EXCEPT ![b].st = "broken", ![b].queued = (bonds[b].cb # NoName)]
  /\ UNCHANGED <<nodelets_, lock_, unit, th, worker, pool, services_, dtor, calls, live>>

\* The bond spinner takes the broken callback: Loader::unload(name)
BondCallback(b) ==
  /\ services_
  /\ bonds[b].queued
  /\ th[BondSpinner].pc = "idle"
  /\ bonds' = [bonds EXCEPT ![b].st = "notified", ![b].queued = FALSE]
  /\ th' = [th EXCEPT ![BondSpinner] =
              [Idle EXCEPT !.pc = "unload_lock", !.op = "unload", !.name = bonds[b].cb,
                           !.bond = b, !.pre = (nodelets_[bonds[b].cb] # 0)]]
  /\ UNCHANGED <<nodelets_, lock_, unit, worker, pool, services_, dtor, calls, live>>

\* ---------------------------------------------------------------- workers
\* A callback for an initialized unit arrives in one of its queues.
Enqueue(u) ==
  /\ pool = "running"
  /\ Dispatchable(u)
  /\ unit[u].inits > 0
  /\ ~unit[u].pending
  /\ unit' = [unit EXCEPT ![u].pending = TRUE]
  /\ UNCHANGED <<nodelets_, lock_, bonds, th, worker, pool, services_, dtor, calls, live>>

\* A worker takes the callback waiting for u.
WorkerStart(w, u) ==
  /\ pool \in {"running", "stopping"}
  /\ worker[w] = 0
  /\ Dispatchable(u)
  /\ unit[u].pending
  /\ unit' = [unit EXCEPT ![u].pending = FALSE]
  /\ worker' = [worker EXCEPT ![w] = u]
  /\ UNCHANGED <<nodelets_, lock_, bonds, th, pool, services_, dtor, calls, live>>

\* The callback returns.
WorkerFinish(w) ==
  /\ worker[w] # 0
  /\ worker' = [worker EXCEPT ![w] = 0]
  /\ UNCHANGED <<nodelets_, lock_, unit, bonds, th, pool, services_, dtor, calls, live>>

\* ---------------------------------------------------------------- ~Loader
\* The statements of the destructor, in program order.
DtorStepsClearFirst ==
  <<"services_.reset", "nodelets_.clear", "stop", "callback_manager_.reset">>
DtorStepsReleaseFirst ==
  <<"services_.reset", "stop", "callback_manager_.reset", "nodelets_.clear">>
DtorSteps == <<"services_.reset", "stop", "nodelets_.clear", "callback_manager_.reset">>

DtorAt(step) ==
  /\ Len(dtor) < Len(DtorSteps)
  /\ DtorSteps[Len(dtor) + 1] = step
  \* a destructor runs when no caller is inside a member function of the object
  /\ InUse => \A t \in Callers : th[t].pc = "idle"

\* services_.reset(): ~LoaderROS joins the bond spinner and drops its queue.
DtorServicesReset ==
  /\ DtorAt("services_.reset")
  /\ th[BondSpinner].pc = "idle"
  /\ services_' = FALSE
  /\ bonds' = [b \in BondIds |-> [bonds[b] EXCEPT !.queued = FALSE]]
  /\ dtor' = Append(dtor, "services_.reset")
  /\ UNCHANGED <<nodelets_, lock_, unit, th, worker, pool, calls, live>>

\* callback_manager_->stop() is entered: no new callback is accepted.
DtorStopBegin ==
  /\ DtorAt("stop")
  /\ pool = "running"
  /\ pool' = "stopping"
  /\ UNCHANGED <<nodelets_, lock_, unit, bonds, th, worker, services_, dtor, calls, live>>

Drained == /\ \A w \in Workers : worker[w] = 0
           /\ \A u \in UnitIds : Dispatchable(u) => ~unit[u].pending

\* callback_manager_->stop() returns: the queues are flushed, the workers joined.
DtorStopJoin ==
  /\ DtorAt("stop")
  /\ pool = "stopping"
  /\ Drained
  /\ pool' = "stopped"
  /\ dtor' = Append(dtor, "stop")
  /\ UNCHANGED <<nodelets_, lock_, unit, bonds, th, worker, services_, calls, live>>

\* nodelets_.clear()
DtorClear ==
  /\ DtorAt("nodelets_.clear")
  /\ unit' = ClearUnits
  /\ nodelets_' = EmptyMap
  /\ live' = {}
  /\ dtor' = Append(dtor, "nodelets_.clear")
  /\ UNCHANGED <<lock_, bonds, th, worker, pool, services_, calls>>

\* callback_manager_.reset()
DtorReset ==
  /\ DtorAt("callback_manager_.reset")
  /\ pool' = "released"
  /\ dtor' = Append(dtor, "callback_manager_.reset")
  /\ UNCHANGED <<nodelets_, lock_, unit, bonds, th, worker, services_, calls, live>>

\* ---------------------------------------------------------------- system
Next ==
  \/ \E t \in Callers, n \in Names, wb \in BOOLEAN : ServiceLoad(t, n, wb)
  \/ \E t \in Callers, ty \in Types, r \in RemapRequests : LoadBegin(t, ty, r[1], r[2])
  \/ \E t \in Callers : LoadQueues(t)
  \/ \E t \in Callers : LoadInit(t)
  \/ \E t \in Callers : LoadSetBroken(t)
  \/ \E t \in Callers : LoadReturn(t)
  \/ \E t \in Callers : ServiceLoadReturn(t)
  \/ \E t \in Callers, n \in Names : ServiceUnload(t, n)
  \/ \E t \in Threads : UnloadBegin(t)
  \/ \E t \in Threads : UnloadDisable(t)
  \/ \E t \in Threads : UnloadErase(t)
  \/ \E t \in Threads : UnloadReturn(t)
  \/ \E t \in Threads : UnloadDone(t)
  \/ \E t \in Callers : ClearCall(t)
  \/ \E t \in Callers : ClearBegin(t)
  \/ \E t \in Callers : ClearReturn(t)
  \/ \E t \in Callers : ServiceList(t)
  \/ \E t \in Callers : ListBegin(t)
  \/ \E t \in Callers : ListReturn(t)
  \/ \E b \in BondIds : BondBreak(b)
  \/ \E b \in BondIds : BondCallback(b)
  \/ \E u \in UnitIds : Enqueue(u)
  \/ \E w \in Workers, u \in UnitIds : WorkerStart(w, u)
  \/ \E w \in Workers : WorkerFinish(w)
  \/ DtorServicesReset
  \/ DtorStopBegin
  \/ DtorStopJoin
  \/ DtorClear
  \/ DtorReset

Spec == Init /\ [][Next]_vars

\* ---------------------------------------------------------------- fairness
\* Every thread that can take a step is scheduled; requests, arriving
\* callbacks, bond losses and the start of the destructor are the environment's.
ThreadStep(t) ==
  \/ \E ty \in Types, r \in RemapRequests : LoadBegin(t, ty, r[1], r[2])
  \/ LoadQueues(t) \/ LoadInit(t) \/ LoadSetBroken(t) \/ LoadReturn(t)
  \/ ServiceLoadReturn(t)
  \/ UnloadBegin(t) \/ UnloadDisable(t) \/ UnloadErase(t) \/ UnloadReturn(t)
  \/ UnloadDone(t)
  \/ ClearBegin(t) \/ ClearReturn(t) \/ ListBegin(t) \/ ListReturn(t)
WorkerStep == \E w \in Workers : WorkerFinish(w) \/ \E u \in UnitIds : WorkerStart(w, u)
DtorStep == ~InUse /\ (DtorServicesReset \/ DtorStopBegin \/ DtorStopJoin \/ DtorClear
                       \/ DtorReset)

LiveSpec ==
  /\ Spec
  /\ \A t \in Threads : WF_vars(ThreadStep(t))
  /\ WF_vars(\E b \in BondIds : BondCallback(b))
  /\ WF_vars(WorkerStep)
  /\ WF_vars(DtorStep)

\* ================================================================ claims
Count(x, s) == Cardinality({i \in 1..Len(s) : s[i] = x})

\* C1: every listLoadedNodelets() result holds a name exactly once while its
\* last successful load has not been undone by a successful unload or clear,
\* and does not hold a name that was never successfully loaded or whose load
\* was undone.
C1_ListShowsExactlyLoadedNames ==
  \A t \in Callers :
    th[t].pc = "list_unlock" =>
      \A n \in Names : Count(n, th[t].out) = IF n \in live THEN 1 ELSE 0

\* Two load calls of callers t1 and t2 for one name, both made while the name
\* was absent and with no unload or clear of it since, have both returned.
RivalLoads(t1, t2) ==
  /\ t1 # t2
  /\ th[t1].pc = "load_ret" /\ th[t2].pc = "load_ret"
  /\ th[t1].name = th[t2].name
  /\ th[t1].pre /\ th[t2].pre
  /\ th[t1].why # "factory" /\ th[t2].why # "factory"

\* A load that found its name present fails and leaves the entry as it was:
\* the same unit, initialized no more than once.
LoadOnPresentFails ==
  \A t \in Callers :
    (th[t].pc = "load_unlock" /\ th[t].bmap[th[t].name] # 0) =>
      /\ th[t].res = "fail"
      /\ nodelets_ = th[t].bmap
      /\ unit[nodelets_[th[t].name]].st = "alive"
      /\ unit[nodelets_[th[t].name]].inits <= 1

C3_NoCallbackOnDestroyedUnit ==
  \A w \in Workers : worker[w] # 0 => unit[worker[w]].st # "destroyed"

\* The order of teardown the destructor is to follow.
TeardownOrder == <<"services_.reset", "stop", "nodelets_.clear", "callback_manager_.reset">>

\* C4: at shutdown the front-end is torn down, then the worker pool's stop()
\* completes (every enqueued callback delivered, every worker idle), and only
\* then the map is cleared; no callback runs on a unit the destructor destroyed.
C4_StopBeforeClear ==
  /\ dtor = SubSeq(TeardownOrder, 1, Len(dtor))
  /\ pool # "running" => ~services_
  /\ \A u \in UnitIds :
       (unit[u].st = "destroyed" /\ unit[u].inDtor) =>
         /\ unit[u].poolAt = "stopped"
         /\ \A w \in Workers : worker[w] # u
  /\ "stop" \in Range(dtor) =>
       /\ \A w \in Workers : worker[w] = 0
       /\ \A u \in UnitIds : ~unit[u].pending

\* The destructor waits in stop() while a callback of a loaded nodelet is in
\* flight.
C4_Witness ==
  /\ ~services_ /\ pool = "stopping"
  /\ \E w \in Workers, n \in Names : worker[w] # 0 /\ nodelets_[n] = worker[w]

\* The teardown state of the registry.
TeardownState ==
  IF "callback_manager_.reset" \in Range(dtor) THEN "Released"
  ELSE IF "nodelets_.clear" \in Range(dtor) THEN "UnitsCleared"
  ELSE IF dtor # <<>> THEN "StoppingWorkers"
  ELSE "Running"

TeardownAdvance ==
  {<<"Running", "StoppingWorkers">>, <<"StoppingWorkers", "UnitsCleared">>,
   <<"UnitsCleared", "Released">>}

\* C5: every unit is destroyed, and its queues unregistered, while the worker
\* pool object still exists, and the teardown state only advances Running ->
\* StoppingWorkers -> UnitsCleared -> Released.
C5_PoolReleasedLast ==
  /\ [](\A u \in UnitIds : unit[u].st = "destroyed" => unit[u].poolAt # "released")
  /\ [](pool = "released" => \A u \in UnitIds : unit[u].st # "alive")
  /\ [][TeardownState' = TeardownState
        \/ <<TeardownState, TeardownState'>> \in TeardownAdvance]_vars

C5_Witness ==
  /\ TeardownState = "Released"
  /\ \E u \in UnitIds : unit[u].st = "destroyed" /\ unit[u].inDtor

\* C6: the bond of a successfully loaded unit carries the callback that
\* unloads the unit's name, and once the bond is broken the name eventually is
\* no key of the map, whatever the callers do.
C6_BrokenBondUnloads ==
  /\ [](\A b \in BondIds : bonds[b].name # NoName => bonds[b].cb = bonds[b].name)
  /\ \A b \in BondIds :
       (bonds[b].st = "broken" /\ bonds[b].name # NoName)
         ~> (bonds[b].name \notin Keys(nodelets_))

\* The bond spinner has unloaded the unit of a broken bond.
C6_Witness ==
  /\ th[BondSpinner].pc = "unload_ret" /\ th[BondSpinner].res = "ok"
  /\ \E b \in BondIds : bonds[b].st = "notified" /\ bonds[b].unit = th[BondSpinner].p
  /\ \A t \in Callers : th[t].op # "unload"

\* The bond spinner's unload and a caller's unload of one name, both made
\* while the name was present and with no load of it since, have both returned.
RivalUnloads(t) ==
  /\ th[t].pc = "unload_ret" /\ th[BondSpinner].pc = "unload_ret"
  /\ th[t].name = th[BondSpinner].name
  /\ th[t].pre /\ th[BondSpinner].pre

\* C7: when the break callback's unload overlaps an explicit unload of the
\* same present name, neither blocks the other for ever, exactly one succeeds,
\* the other fails, and the unit is disabled exactly once.
C7_OverlappingUnloads ==
  /\ \A t \in Callers :
       RivalUnloads(t) =>
         \E win, lose \in {t, BondSpinner} :
           /\ win # lose
           /\ th[win].res = "ok" /\ th[lose].res = "fail"
           /\ unit[th[win].p].disabled = 1
           /\ unit[th[win].p].st = "destroyed"
           /\ th[lose].p = 0
  /\ \A t \in Threads :
       th[t].pc = "unload_lock" =>
         /\ lock_ # t
         /\ lock_ # NoThread =>
              th[lock_].pc \in {"load_queues", "load_init", "load_bond", "load_unlock",
                                "unload_disable", "unload_erase", "unload_unlock",
                                "clear_unlock", "list_unlock"}

C7_Witness ==
  \E t \in Callers :
    RivalUnloads(t) /\ th[t].res = "fail" /\ th[BondSpinner].res = "ok"

\* C8: a load whose factory call fails returns failure, adds no entry, creates
\* no unit and no queues, registers no break callback, and leaves the map as
\* it was.
C8_FactoryFailureLeavesNothing ==
  \A t \in Callers :
    (th[t].pc = "load_unlock" /\ th[t].bmap[th[t].name] = 0
       /\ CreateClassInstance(th[t].type) # "instance") =>
      /\ th[t].res = "fail"
      /\ nodelets_ = th[t].bmap
      /\ Cardinality(Allocated) = th[t].bunits
      /\ th[t].p = 0
      /\ th[t].bond # 0 => bonds[th[t].bond].cb = NoName

C8_Witness ==
  \E t \in Callers :
    /\ th[t].pc = "load_unlock" /\ th[t].type = "NullType" /\ th[t].bond # 0
    /\ th[t].bmap[th[t].name] = 0 /\ Keys(nodelets_) # {}

\* C9: the map after a load that returns failure equals the map before it.
C9_FailedLoadLeavesMap ==
  \A t \in Callers :
    (th[t].pc = "load_unlock" /\ th[t].res = "fail") => nodelets_ = th[t].bmap

\* C10: unload of a name that is no key of the map returns failure, disables
\* no unit and leaves the map unchanged.
C10_UnloadAbsent ==
  \A t \in Threads :
    (th[t].pc = "unload_unlock" /\ th[t].bmap[th[t].name] = 0) =>
      /\ th[t].res = "fail"
      /\ DisableCount = th[t].bdis
      /\ nodelets_ = th[t].bmap

C10_Witness ==
  \E t \in Callers :
    /\ th[t].pc = "unload_unlock" /\ th[t].bmap[th[t].name] = 0
    /\ th[t].res = "fail" /\ Keys(nodelets_) # {}

\* A load request with remap argument lists of different lengths has run.
Mismatched(t) ==
  th[t].op = "load" /\ th[t].pc = "load_unlock" /\ Len(th[t].src) # Len(th[t].tgt)

\* The load of thread t had a free name and a type that is created and
\* initializes.
Loadable(t) ==
  /\ th[t].bmap[th[t].name] = 0
  /\ CreateClassInstance(th[t].type) = "instance"
  /\ InitOutcome(th[t].type) = "ok"

\* C11 as stated: a Load whose remap_sources and remap_targets differ in
\* length returns failure and adds no unit.
C11_MismatchFails ==
  \A t \in Callers :
    Mismatched(t) =>
      /\ th[t].res = "fail"
      /\ nodelets_ = th[t].bmap
      /\ Cardinality(Allocated) = th[t].bunits

\* C11 amended: a Load whose remap_sources and remap_targets differ in length
\* is not refused for it: the registry's load is performed and its result
\* returned, success with the unit added exactly when the name is free and
\* the type loads.
C11_MismatchProceeds ==
  \A t \in Callers :
    Mismatched(t) =>
      /\ th[t].res = "ok" <=> Loadable(t)
      /\ th[t].res = "ok" =>
           /\ th[t].p # 0 /\ nodelets_[th[t].name] = th[t].p
           /\ unit[th[t].p].inits = 1
           /\ Cardinality(Allocated) = th[t].bunits + 1

C11_Witness ==
  \E t \in Callers : Mismatched(t) /\ th[t].res = "ok" /\ Keys(th[t].bmap) # {}

Entries(m) == Cardinality({k \in DOMAIN m : m[k] # NoName})
Sources(t) == {th[t].src[i] : i \in 1..Len(th[t].src)}

\* A mismatched Load with a free name and a loadable type succeeds, and the
\* table its unit was initialized with is empty.
MismatchGivesEmptyTable ==
  \A t \in Callers :
    (Mismatched(t) /\ Loadable(t)) =>
      th[t].res = "ok" /\ Entries(th[t].remap) = 0

\* C12 as stated: a mismatched Load succeeds with an empty table, and with
\* lists of equal length the table has one entry per distinct source.
C12_OneEntryPerSource ==
  /\ MismatchGivesEmptyTable
  /\ \A t \in Callers :
       (th[t].pc = "load_unlock" /\ Len(th[t].src) = Len(th[t].tgt)) =>
         Entries(th[t].remap) = Cardinality(Sources(t))

\* C12 amended: a mismatched Load succeeds with an empty table, and with lists
\* of equal length the table has one entry per distinct resolved source, that
\* of the last argument pair with this source.
C12_OneEntryPerResolvedSource ==
  /\ MismatchGivesEmptyTable
  /\ \A t \in Callers :
       (th[t].pc = "load_unlock" /\ Len(th[t].src) = Len(th[t].tgt)) =>
         /\ Entries(th[t].remap) = Cardinality({Resolve(s) : s \in Sources(t)})
         /\ \A i \in 1..Len(th[t].src) :
              (\A j \in (i+1)..Len(th[t].src) :
                 Resolve(th[t].src[j]) # Resolve(th[t].src[i])) =>
                th[t].remap[Resolve(th[t].src[i])] = Resolve(th[t].tgt[i])

\* A Load with two sources that resolve to one graph name has succeeded.
C12_Witness ==
  \E t \in Callers :
    /\ th[t].pc = "load_unlock" /\ th[t].res = "ok"
    /\ Len(th[t].src) = Len(th[t].tgt)
    /\ Entries(th[t].remap) = 1 /\ Cardinality(Sources(t)) = 2

\* C13: a bond that has been started belongs to a load that returned success:
\* its unit was put in the map and initialized and its broken callback was
\* registered before the start.
C13_BondStartedAfterLoad ==
  \A b \in BondIds :
    bonds[b].st \in {"started", "broken", "notified"} =>
      /\ bonds[b].name # NoName
      /\ bonds[b].cb = bonds[b].name
      /\ bonds[b].unit # 0 /\ unit[bonds[b].unit].inits = 1

\* The places of a thread inside the critical section of a registry operation.
CriticalSection ==
  {"load_queues", "load_init", "load_bond", "load_unlock",
   "unload_disable", "unload_erase", "unload_unlock", "clear_unlock", "list_unlock"}

\* C14: a thread is inside load, unload, clear or listLoadedNodelets exactly
\* while it holds the lock, so at most one is, from a load's name check to the
\* end of its initialization and callback registration included; and while the
\* registry is in use the map changes only in a step of the lock's holder.
C14_OneOperationAtATime ==
  /\ [](\A t \in Threads : th[t].pc \in CriticalSection <=> lock_ = t)
  /\ [][nodelets_' # nodelets_ =>
          \/ lock_' # NoThread /\ th'[lock_'] # th[lock_']
          \/ ~InUse]_vars

\* An unload of the name waits while a load is between the insertion of its
\* unit and the unit's initialization.
C14_Witness ==
  \E t1, t2 \in Callers :
    /\ th[t1].pc = "load_init" /\ nodelets_[th[t1].name] = th[t1].p
    /\ th[t2].pc = "unload_lock" /\ th[t2].name = th[t1].name

\* C15: unload of a present name disables the unit, once, while its entry is
\* still in the map, then removes the entry, all under the lock, and returns
\* success; after it the name is free for a load.
C15_DisableBeforeErase ==
  /\ \A t \in Threads :
       th[t].pc = "unload_erase" =>
         /\ lock_ = t
         /\ nodelets_[th[t].name] = th[t].p
         /\ unit[th[t].p].st = "alive" /\ unit[th[t].p].disabled = 1
  /\ \A t \in Threads :
       (th[t].pc = "unload_unlock" /\ th[t].bmap[th[t].name] # 0) =>
         /\ lock_ = t
         /\ th[t].res = "ok" /\ th[t].p = th[t].bmap[th[t].name]
         /\ unit[th[t].p].st = "destroyed" /\ unit[th[t].p].disabled = 1
         /\ DisableCount = th[t].bdis + 1
         /\ ~NameTaken(th[t].name)
         /\ \A n \in Names \ {th[t].name} : nodelets_[n] = th[t].bmap[n]
  /\ \A u \in UnitIds : unit[u].disabled <= 1

\* An unload has removed one of two loaded units.
C15_Witness ==
  \E t \in Callers :
    /\ th[t].pc = "unload_unlock" /\ th[t].res = "ok"
    /\ Keys(nodelets_) # {} /\ unit[th[t].p].inits = 1

\* The unit of the load of thread t is in the map under the load's name, with
\* q queues and i calls of its init so far.
LoadAt(t, q, i) ==
  /\ th[t].p # 0 /\ nodelets_[th[t].name] = th[t].p
  /\ unit[th[t].p].st = "alive"
  /\ unit[th[t].p].queues = q /\ unit[th[t].p].inits = i

\* C16: a load inserts its unit, then creates the unit's two queues, then
\* calls the unit's init once, then registers the broken callback of the bond
\* if there is one; init is called only for a unit in the map with its queues.
C16_LoadStepOrder ==
  /\ \A t \in Callers :
       /\ th[t].pc = "load_queues" => LoadAt(t, 0, 0)
       /\ th[t].pc = "load_init" => LoadAt(t, 2, 0)
       /\ th[t].pc = "load_bond" =>
            LoadAt(t, 2, 1) /\ (th[t].bond # 0 => bonds[th[t].bond].cb = NoName)
       /\ (th[t].pc = "load_unlock" /\ th[t].res = "ok") =>
            LoadAt(t, 2, 1) /\ (th[t].bond # 0 => bonds[th[t].bond].cb = th[t].name)
  /\ \A u \in UnitIds :
       /\ unit[u].inits <= 1
       /\ (unit[u].st = "alive" /\ unit[u].inits = 1) => unit[u].queues = 2
  /\ \A b \in BondIds :
       bonds[b].cb # NoName => bonds[b].unit # 0 /\ unit[bonds[b].unit].inits = 1

\* A load with a bond has registered the bond's broken callback.
C16_Witness ==
  \E t \in Callers :
    /\ th[t].pc = "load_unlock" /\ th[t].res = "ok" /\ th[t].bond # 0
    /\ bonds[th[t].bond].cb = th[t].name /\ LoadAt(t, 2, 1)

\* The bond spinner runs the broken callback of a bond whose unit had left the
\* map before the callback took the lock.
LateCallback ==
  /\ th[BondSpinner].pc \in {"unload_disable", "unload_erase", "unload_unlock"}
  /\ bonds[th[BondSpinner].bond].unit # 0
  /\ \A n \in Names : th[BondSpinner].bmap[n] # bonds[th[BondSpinner].bond].unit

\* C17: a broken callback that runs after its unit has left the map returns
\* failure, disables nothing and leaves the map as it was; and the bond
\* spinner is inside no unload once the destructor has begun.
C17_LateCallbackIsNoOp ==
  /\ LateCallback =>
       /\ th[BondSpinner].pc = "unload_unlock" /\ th[BondSpinner].res = "fail"
       /\ nodelets_ = th[BondSpinner].bmap
       /\ DisableCount = th[BondSpinner].bdis
  /\ th[BondSpinner].pc # "idle" => InUse /\ services_ /\ pool = "running"

\* C19: the unload a bond's broken callback makes removes and disables no
\* unit other than the one that was loaded with the bond.
C19_BreakUnloadsOnlyBoundUnit ==
  (th[BondSpinner].pc \in {"unload_disable", "unload_erase", "unload_unlock"}
     /\ th[BondSpinner].p # 0)
    => th[BondSpinner].p = bonds[th[BondSpinner].bond].unit

\* The result of a listLoadedNodelets() call holds every key of the map once
\* and nothing else.
ListIsSnapshot(t) ==
  /\ Range(th[t].out) = Keys(nodelets_)
  /\ Len(th[t].out) = Cardinality(Keys(nodelets_))

\* The place of a name in the order of the map's keys.
KeyRank(n) == CHOOSE k \in 1..Len(NameOrder) : NameOrder[k] = n

\* C18 as stated: listLoadedNodelets() returns every key once and nothing
\* else, in the order in which the names were inserted.
C18_ListInInsertionOrder ==
  \A t \in Callers :
    th[t].pc = "list_unlock" =>
      /\ ListIsSnapshot(t)
      /\ \A i, j \in 1..Len(th[t].out) :
           i < j => nodelets_[th[t].out[i]] < nodelets_[th[t].out[j]]

\* C18 amended: listLoadedNodelets() returns, under the lock, every key once
\* and nothing else, in ascending order of the names, whatever the order of
\* their loads.
C18_ListInKeyOrder ==
  \A t \in Callers :
    th[t].pc = "list_unlock" =>
      /\ lock_ = t
      /\ ListIsSnapshot(t)
      /\ \A i, j \in 1..Len(th[t].out) :
           i < j => KeyRank(th[t].out[i]) < KeyRank(th[t].out[j])

\* A list of two names of which the second was loaded first.
C18_Witness ==
  \E t \in Callers :
    /\ th[t].pc = "list_unlock" /\ Len(th[t].out) = 2
    /\ nodelets_[th[t].out[2]] < nodelets_[th[t].out[1]]

\* The places where a thread waits for the lock.
WaitingForLock == {"load_lock", "unload_lock", "clear_lock", "list_lock"}

\* C20: under fair scheduling every call of load, unload, clear and
\* listLoadedNodelets and every unload of a broken callback gets the lock and
\* returns: whenever calls are in progress, a time comes when all have
\* returned (a run holds finitely many calls, so none waits for ever); and no
\* thread, the bond spinner included, holds the lock while it waits for it.
C20_EveryCallReturns ==
  /\ (\E t \in Threads : th[t].pc # "idle") ~> (\A t \in Threads : th[t].pc = "idle")
  /\ [](\A t \in Threads : th[t].pc \in WaitingForLock => lock_ # t)

\* Both callers and the bond spinner are inside calls, one holding the lock
\* and two waiting for it.
C20_Witness ==
  /\ lock_ \in Callers
  /\ \E t \in Callers : th[t].pc \in WaitingForLock
  /\ th[BondSpinner].pc = "unload_lock"

====
